---- MODULE Spec2Model ----
(***************************************************************************)
(* Markdown link diagnostics of the markdown-language-features extension   *)
(* (languageFeatures/diagnostics.ts): the DiagnosticComputer, which runs   *)
(* three validation passes over the links of one document, and the         *)
(* DiagnosticManager, which debounces document events and publishes the    *)
(* computed diagnostics in a per-document collection.                      *)
(*                                                                         *)
(* The module also models the webview service worker                       *)
(* (webview/browser/pre/service-worker.js), which answers /resource        *)
(* fetches with what the page loads for it.                                *)
(*                                                                         *)
(* The specifications share the module's variables:                        *)
(*   SpecComputer  one document, its links, options and oracle answers     *)
(*                 drawn in CInit; DiagnosticComputer.getDiagnostics is    *)
(*                 called twice on it, every await being a step.           *)
(*   SpecFaulty    one call whose oracles may reject.                      *)
(*   SpecOwnPath   one call whose lookup may miss the document itself.     *)
(*   SpecLevels    one call with a level outside DiagnosticLevel.          *)
(*   SpecManager   the DiagnosticManager under document, configuration     *)
(*                 and timer events, computations completing in any order. *)
(*   SpecBatch     the same with computations that may be rejected.        *)
(*   SpecLive      the same under fair timer and computations.             *)
(*   SpecWorker    the service worker under fetch events and messages.     *)
(***************************************************************************)
EXTENDS Integers, Sequences, FiniteSets, TLC

\* ---- DiagnosticComputer.getDiagnostics (one call at a time) ----
VARIABLES
  links,        \* the links getAllLinks returns for the document
  cOptions,     \* the DiagnosticOptions the call was given
  mdDocs,       \* paths at which tryFindMdDocumentForLink finds a document
  diskFiles,    \* paths for which workspaceContents.pathExists is true
  call,         \* 1: first call, 2: second call on the same document,
                \* 3: the call after the missing files were created
  cpc,          \* "links" | "passes" | "done": position of getDiagnostics;
                \* "rejected": its promise was rejected
  cancelled,    \* token.isCancellationRequested of the current call
  taskPc,       \* per FileLinkMap entry: "queued"|"find"|"exists"|"toc"|"done"
  fileDiags,    \* the diagnostics array of validateFileLinks
  refDiags,     \* the result of validateReferenceLinks
  ownPc,        \* "idle" | "toc" | "done": position of validateOwnHeaderLinks
  ownDiags,     \* the result of validateOwnHeaderLinks
  result,       \* what the current call returned (when cpc = "done")
  first,        \* what the first call returned
  \* ---- DiagnosticManager ----
  textDocuments,      \* vscode.workspace.textDocuments, in opening order
  tabs,               \* documents shown in a text tab of some tab group
  content,            \* per document: its current content (a set of links)
  options,            \* what configuration.getOptions returns
  pendingDiagnostics, \* the Set of uris awaiting recomputation
  timer,              \* the Delayer's timeout: -1 none, else ms remaining
  collection,         \* the DiagnosticCollection: uri -> diagnostics
  inflight,           \* update() calls awaiting computer.getDiagnostics:
                      \* how many of each (document, content, config)
  latest,             \* per document: what its newest computation returns
  burst,              \* per document: its open/change events since the last
                      \* fire: "none", "one" or "several"
  fireLog,            \* per document: what the last timer fire did for it
  calls,              \* Manager.getDiagnostics calls made by the last step
  failed,             \* documents with an update() that was rejected since
                      \* the last batch of updates was started
  \* ---- webview service worker (pre/service-worker.js) ----
  resolvedPaths,      \* the Map: path -> { resolve, promise }
  fetches,            \* per fetch event: its url and where its handler is
  posted,             \* per path: load-resource messages not yet replied to
  clients             \* pathnames of the urls clients.matchAll returns

cvars == <<links, cOptions, mdDocs, diskFiles, call, cpc, cancelled, taskPc,
           fileDiags, refDiags, ownPc, ownDiags, result, first>>
mvars == <<textDocuments, tabs, content, options, pendingDiagnostics, timer,
           collection, inflight, latest, burst, fireLog, calls, failed>>
wvars == <<resolvedPaths, fetches, posted, clients>>
vars == <<cvars, mvars, wvars>>

----------------------------------------------------------------------------
(* Options, links, diagnostics                                             *)

DiagnosticLevel == {"ignore", "warning", "error"}

DiagnosticOptions ==
  [enabled : BOOLEAN, validateReferences : DiagnosticLevel,
   validateOwnHeaders : DiagnosticLevel, validateFilePaths : DiagnosticLevel]

\* toSeverity with a default case that reports errors.
toSeverityDefaultError(level) ==
  CASE level = "error" -> "Error"
    [] level = "warning" -> "Warning"
    [] level = "ignore" -> "undefined"
    [] OTHER -> "Error"

\* toSeverity with the ignore case lost: it falls through to warning.
toSeverityIgnoreAsWarning(level) ==
  CASE level = "error" -> "Error"
    [] OTHER -> "Warning"

\* toSeverity: a switch with no default; any other value falls out of it.
toSeverity(level) ==
  CASE level = "error" -> "Error"
    [] level = "warning" -> "Warning"
    [] OTHER -> "undefined"

\* The uri of the document under validation; other paths are 1, 2, ...
DocUri == 0

NoDoc == -1

\* An MdLink: source.hrefRange (its place in the document), kind
\* ("link" | "definition"), href (kind, path, fragment, ref) and, for a
\* definition, the name it defines.
MdLink(range, kind, hrefKind, path, fragment, ref, defines) ==
  [range |-> range, kind |-> kind, hrefKind |-> hrefKind, path |-> path,
   fragment |-> fragment, ref |-> ref, defines |-> defines]

\* The links documents are made of; a link's range is its index here.
LinkAt(i) ==
  CASE i = 1 -> MdLink(1, "link", "internal", DocUri, "missing", "", "")
    [] i = 2 -> MdLink(2, "link", "reference", NoDoc, "", "r1", "")
    [] i = 3 -> MdLink(3, "definition", "external", NoDoc, "", "", "r1")
    [] i = 4 -> MdLink(4, "link", "internal", 1, "", "", "")
    [] i = 5 -> MdLink(5, "link", "internal", 2, "nohdr", "", "")
    [] i = 6 -> MdLink(6, "link", "internal", DocUri, "intro", "", "")
    [] i = 7 -> MdLink(7, "link", "internal", 1, "x", "", "")
    [] i = 8 -> MdLink(8, "link", "internal", DocUri, "", "", "")
    [] i = 9 -> MdLink(9, "link", "internal", 2, "intro", "", "")
    [] i = 10 -> MdLink(10, "link", "internal", 2, "", "", "")
    [] OTHER -> MdLink(i, "link", "external", NoDoc, "", "", "")

Diagnostic(range, message, arg, severity) ==
  [range |-> range, message |-> message, arg |-> arg, severity |-> severity]

\* TableOfContents.create(engine, doc).lookup(fragment): every document of
\* the model has the one header "intro".
TocLookup(docPath, fragment) == fragment = "intro"

\* new LinkDefinitionSet(links).lookup(ref)
LinkDefinitionSetLookup(ls, ref) ==
  \E i \in DOMAIN ls : ls[i].kind = "definition" /\ ls[i].defines = ref

\* The loop of validateOwnHeaderLinks without the comparison of the link's
\* path with the document's uri.
OwnHeaderDiagnosticsAnyPath(ls, severity) ==
  LET f[i \in 0..Len(ls)] ==
        IF i = 0 THEN <<>>
        ELSE LET link == ls[i]
             IN IF /\ link.hrefKind = "internal"
                   /\ link.fragment # ""
                   /\ ~TocLookup(DocUri, link.fragment)
                THEN Append(f[i - 1],
                            Diagnostic(link.range, "No header found",
                                       link.fragment, severity))
                ELSE f[i - 1]
  IN f[Len(ls)]

\* The loop of validateOwnHeaderLinks (lines 243-257), the table of
\* contents of the document being ready.
OwnHeaderDiagnostics(ls, severity) ==
  LET f[i \in 0..Len(ls)] ==
        IF i = 0 THEN <<>>
        ELSE LET link == ls[i]
             IN IF /\ link.hrefKind = "internal"
                   /\ link.path = DocUri
                   /\ link.fragment # ""
                   /\ ~TocLookup(DocUri, link.fragment)
                THEN Append(f[i - 1],
                            Diagnostic(link.range, "No header found",
                                       link.fragment, severity))
                ELSE f[i - 1]
  IN f[Len(ls)]

\* validateReferenceLinks without the lookup in the definition set.
validateReferenceLinksNoLookup(opts, ls) ==
  LET severity == toSeverity(opts.validateReferences)
      f[i \in 0..Len(ls)] ==
        IF i = 0 THEN <<>>
        ELSE IF ls[i].hrefKind = "reference"
             THEN Append(f[i - 1],
                         Diagnostic(ls[i].range, "No link reference found",
                                    ls[i].ref, severity))
             ELSE f[i - 1]
  IN IF severity = "undefined" THEN <<>> ELSE f[Len(ls)]

\* validateReferenceLinks: a generator drained by Array.from, no await.
validateReferenceLinks(opts, ls) ==
  LET severity == toSeverity(opts.validateReferences)
      f[i \in 0..Len(ls)] ==
        IF i = 0 THEN <<>>
        ELSE LET link == ls[i]
             IN IF /\ link.hrefKind = "reference"
                   /\ ~LinkDefinitionSetLookup(ls, link.ref)
                THEN Append(f[i - 1],
                            Diagnostic(link.range, "No link reference found",
                                       link.ref, severity))
                ELSE f[i - 1]
  IN IF severity = "undefined" THEN <<>> ELSE f[Len(ls)]

\* new FileLinkMap(links).entries(): one entry per distinct path of an
\* internal link, in order of first occurrence (a Map keeps insertion
\* order), each with the links to that path in document order.
FileLinkMap(ls) ==
  LET f[i \in 0..Len(ls)] ==
        IF i = 0 THEN <<>>
        ELSE LET link == ls[i]
                 prev == f[i - 1]
                 linkData == [range |-> link.range, fragment |-> link.fragment]
             IN IF link.hrefKind # "internal" THEN prev
                ELSE IF \E k \in DOMAIN prev : prev[k].path = link.path
                THEN LET k == CHOOSE k \in DOMAIN prev : prev[k].path = link.path
                     IN [prev EXCEPT ![k].links = Append(@, linkData)]
                ELSE Append(prev, [path |-> link.path, links |-> <<linkData>>])
  IN f[Len(ls)]

\* tryFindMdDocumentForLink({kind: 'internal', path, fragment: ''}, ...):
\* the uri of the document found, or NoDoc.
tryFindMdDocumentForLink(path, docs) == IF path \in docs THEN path ELSE NoDoc

\* Lines 305-308 reporting a missing target once, at its first link only.
MissingFileDiagnosticsOncePerTarget(entry, severity) ==
  <<Diagnostic(entry.links[1].range, "File does not exist at path",
               entry.path, severity)>>

\* Lines 305-308: one diagnostic per link of the entry.
MissingFileDiagnostics(entry, severity) ==
  [i \in 1..Len(entry.links) |->
     Diagnostic(entry.links[i].range, "File does not exist at path",
                entry.path, severity)]

\* Lines 311-319 without the filter on links that carry a fragment.
MissingHeaderDiagnosticsAllLinks(entry, hrefDoc, severity) ==
  LET ls == entry.links
      f[i \in 0..Len(ls)] ==
        IF i = 0 THEN <<>>
        ELSE IF ~TocLookup(hrefDoc, ls[i].fragment)
             THEN Append(f[i - 1],
                         Diagnostic(ls[i].range, "Header does not exist in file",
                                    ls[i].fragment, severity))
             ELSE f[i - 1]
  IN f[Len(ls)]

\* Lines 311-319: the links of the entry with a fragment the target's table
\* of contents does not hold.
MissingHeaderDiagnostics(entry, hrefDoc, severity) ==
  LET ls == entry.links
      f[i \in 0..Len(ls)] ==
        IF i = 0 THEN <<>>
        ELSE IF ls[i].fragment # "" /\ ~TocLookup(hrefDoc, ls[i].fragment)
             THEN Append(f[i - 1],
                         Diagnostic(ls[i].range, "Header does not exist in file",
                                    ls[i].fragment, severity))
             ELSE f[i - 1]
  IN f[Len(ls)]

\* What one limiter task of validateFileLinks pushes in all (lines 298-321).
FileTaskDiagnostics(entry, severity, docs, disk) ==
  LET hrefDoc == tryFindMdDocumentForLink(entry.path, docs)
  IN IF hrefDoc # NoDoc /\ hrefDoc = DocUri THEN <<>>
     ELSE IF hrefDoc = NoDoc /\ entry.path \notin disk
          THEN MissingFileDiagnostics(entry, severity)
     ELSE IF hrefDoc # NoDoc
          THEN MissingHeaderDiagnostics(entry, hrefDoc, severity)
     ELSE <<>>

----------------------------------------------------------------------------
(* Bounds of the model                                                     *)

NumLinks == 10     \* documents are made of LinkAt(1..NumLinks)
MaxLinks == 3      \* links per document
NumTargets == 11   \* distinct link targets of the wide document
TickMs == 300      \* granularity of the debounce clock
MaxInflight == 2   \* update() calls awaiting the computer at once

----------------------------------------------------------------------------
(* The Limiter of validateFileLinks                                        *)

\* new Limiter(10)
LimiterMax == 10

Running(tp) == {t \in DOMAIN tp : tp[t] \in {"find", "exists", "toc"}}

\* Where a limiter task is once its factory has run to its first await
\* (lines 294-298): finished at once if the token is cancelled.
TaskStart(isCancelled) == IF isCancelled THEN "done" ELSE "find"

\* Limiter.consume: queued tasks start in submission order while fewer than
\* LimiterMax run; a task that finishes at once frees its slot again.
LimiterConsume(tp, isCancelled) ==
  LET queued == {t \in DOMAIN tp : tp[t] = "queued"}
      free == LimiterMax - Cardinality(Running(tp))
  IN [t \in DOMAIN tp |->
        IF t \in queued /\ free > 0
           /\ (TaskStart(isCancelled) = "done"
               \/ Cardinality({u \in queued : u < t}) < free)
        THEN TaskStart(isCancelled)
        ELSE tp[t]]

\* A task settles: Limiter.consumed, then consume.
TaskSettled(tp, t, isCancelled) ==
  LimiterConsume([tp EXCEPT ![t] = "done"], isCancelled)

----------------------------------------------------------------------------
(* The DiagnosticManager's world                                           *)

\* The documents of the workspace: two markdown documents that share a file
\* system path under different schemes, a second markdown file, and a plain
\* text file, which is open throughout.
Uris == {"file:/a.md", "git:/a.md", "file:/b.md", "file:/n.txt"}

\* The documents that open and close in SpecManager, and those in SpecBatch.
SharedPathUris == {"file:/a.md", "git:/a.md", "file:/n.txt"}
BatchUris == {"file:/a.md", "file:/b.md"}

\* Uri.fsPath: the scheme is not part of it.
fsPath(uri) ==
  CASE uri \in {"file:/a.md", "git:/a.md"} -> "/a.md"
    [] uri = "file:/b.md" -> "/b.md"
    [] OTHER -> "/n.txt"

isMarkdownFile(uri) == uri # "file:/n.txt"

\* What a document may contain when it is opened or edited: a text file
\* nothing the model looks at; the markdown file nothing to report, or a
\* link to a header it lacks; its git revision, which is read-only, that
\* link, as does the second markdown file.
Contents(uri) ==
  CASE uri = "file:/a.md" -> {{}, {1}}
    [] uri = "git:/a.md" -> {{1}}
    [] uri = "file:/b.md" -> {{1}}
    [] OTHER -> {{}}

ReadOnly(uri) == uri = "git:/a.md"

\* Whether a markdown document opens in a text tab (TabInputText): the file
\* does or not, its git revision is shown in a diff tab only, the second
\* file always in a text tab.
InTextTab(uri) ==
  CASE uri = "file:/a.md" -> BOOLEAN
    [] uri = "file:/b.md" -> {TRUE}
    [] OTHER -> {FALSE}

\* The configurations: one level for the three categories, error with
\* validation off, error or warning with validation on.
ManagerOptions ==
  {o \in DiagnosticOptions :
     /\ o.validateReferences = o.validateOwnHeaders
     /\ o.validateOwnHeaders = o.validateFilePaths
     /\ \/ o.validateFilePaths = "error"
        \/ o.validateFilePaths = "warning" /\ o.enabled}

\* new Delayer(300)
DelayMs == 300

\* An update() call awaiting the computer: the document, the content it
\* had and the configuration that was read when the call was made.
Computations ==
  {[doc |-> u, content |-> c, config |-> o] :
     u \in {v \in Uris : isMarkdownFile(v)}, c \in SUBSET {1}, o \in ManagerOptions}

NoEntry == [has |-> FALSE, diags |-> <<>>]
Entry(diags) == [has |-> TRUE, diags |-> diags]

MInitState ==
  /\ textDocuments = <<"file:/n.txt">>
  /\ tabs = {"file:/n.txt"}
  /\ content = [u \in Uris |-> {}]
  /\ pendingDiagnostics = {}
  /\ timer = -1
  /\ collection = [u \in Uris |-> NoEntry]
  /\ inflight = [c \in Computations |-> 0]
  /\ latest = [u \in Uris |-> NoEntry]
  /\ burst = [u \in Uris |-> "none"]
  /\ fireLog = [u \in Uris |-> [pending |-> FALSE, events |-> "none", updates |-> 0]]
  /\ calls = {}
  /\ failed = {}

----------------------------------------------------------------------------
(* The webview service worker's world                                      *)

NumFetches == 3    \* fetch events of a run

FetchIds == 1..NumFetches
ResourcePaths == {"a.css", "b.js"}

\* The urls fetched: /resource?path=p for a path p, and another page.
Url(pathname, path) == [pathname |-> pathname, path |-> path]
RequestUrls == {Url("/resource", p) : p \in ResourcePaths} \cup {Url("/main.js", "")}

\* event.request.url.replace(origin + '/resource?path=', ''), line 43
resourcePath(url) == url.path

\* An entry of resolvedPaths: absent, or a promise that is pending
\* (status 0) or resolved with a Response of some status.
Absent == [has |-> FALSE, status |-> 0]
Deferred(status) == [has |-> TRUE, status |-> status]

NoFetch == [url |-> Url("", ""), pc |-> "none", status |-> 0]

\* The service worker just installed: empty map (line 6), no event yet.
WStart ==
  /\ resolvedPaths = [p \in ResourcePaths |-> Absent]
  /\ fetches = [f \in FetchIds |-> NoFetch]
  /\ posted = [p \in ResourcePaths |-> 0]

\* The service worker of a run of the other specifications: left alone.
WIdle == WStart /\ clients = <<>>

----------------------------------------------------------------------------
(* SpecComputer: DiagnosticComputer.getDiagnostics                         *)

RECURSIVE SortedSeq(_)
SortedSeq(S) ==
  IF S = {} THEN <<>>
  ELSE LET m == CHOOSE x \in S : \A y \in S : x <= y
       IN <<m>> \o SortedSeq(S \ {m})

\* The document whose links are those of S, in document order.
DocLinks(S) == LET idx == SortedSeq(S) IN [k \in DOMAIN idx |-> LinkAt(idx[k])]

SmallDocuments ==
  {DocLinks(S) : S \in {T \in SUBSET (1..NumLinks) : Cardinality(T) <= MaxLinks}}

\* A document with one link to each of NumTargets distinct files.
WidePath(i) == 100 + i
WideDocument ==
  [i \in 1..NumTargets |->
     MdLink(100 + i, "link", "internal", WidePath(i), "", "", "")]

\* The oracle answers: the document itself, path 2 and the wide targets but
\* the first two are markdown documents; path 1 may be a file on disk.
Worlds ==
  {[docs |-> {DocUri, 2} \cup {WidePath(i) : i \in 3..NumTargets}, disk |-> d] :
     d \in {{}, {1, WidePath(2)}}}

WideOptions ==
  [enabled |-> TRUE, validateReferences |-> "ignore",
   validateOwnHeaders |-> "ignore", validateFilePaths |-> "error"]

\* The manager of a run of SpecComputer: constructed, and left alone.
MIdle == MInitState /\ options = WideOptions

\* The options of the calls: every combination of levels with validation
\* enabled, and the three uniform ones with it disabled.
ComputerOptions ==
  {o \in DiagnosticOptions :
     \/ o.enabled
     \/ /\ o.validateReferences = o.validateOwnHeaders
        /\ o.validateOwnHeaders = o.validateFilePaths}

CInit ==
  /\ \/ links \in SmallDocuments /\ cOptions \in ComputerOptions
     \/ links = WideDocument /\ cOptions = WideOptions
  /\ \E w \in Worlds : mdDocs = w.docs /\ diskFiles = w.disk
  /\ call = 1
  /\ cpc = "links"
  /\ cancelled = FALSE
  /\ taskPc = <<>>
  /\ fileDiags = <<>>
  /\ refDiags = <<>>
  /\ ownPc = "idle"
  /\ ownDiags = <<>>
  /\ result = <<>>
  /\ first = <<>>
  /\ MIdle
  /\ WIdle

\* validateFileLinks mapping the entries without the limiter: every task
\* starts at once.
FileTasksUnlimited(opts, ls) ==
  LET n == Len(FileLinkMap(ls))
  IN IF toSeverity(opts.validateFilePaths) = "undefined" \/ n = 0
     THEN <<>>
     ELSE [t \in 1..n |-> "find"]

\* Lines 277-292 up to the first await of every task the limiter starts.
FileTasksAtStart(opts, ls) ==
  LET n == Len(FileLinkMap(ls))
  IN IF toSeverity(opts.validateFilePaths) = "undefined" \/ n = 0
     THEN <<>>
     ELSE LimiterConsume([t \in 1..n |-> "queued"], FALSE)

\* Lines 232-238: validateOwnHeaderLinks up to its await.
OwnPassAtStart(opts) ==
  IF toSeverity(opts.validateOwnHeaders) = "undefined" THEN "done" ELSE "toc"

\* getAllLinks returns and the passes start whatever the token says.
LinksReturnIgnoringToken ==
  /\ cpc = "links"
  /\ cpc' = "passes"
  /\ taskPc' = FileTasksAtStart(cOptions, links)
  /\ fileDiags' = <<>>
  /\ refDiags' = validateReferenceLinks(cOptions, links)
  /\ ownPc' = OwnPassAtStart(cOptions)
  /\ ownDiags' = <<>>
  /\ UNCHANGED <<result, links, cOptions, mdDocs, diskFiles, call, cancelled,
                 first>>
  /\ UNCHANGED <<mvars, wvars>>

\* getAllLinks returns (line 220): the cancellation check, then the three
\* passes start, each running to its first await.
LinksReturn ==
  /\ cpc = "links"
  /\ IF cancelled
     THEN /\ cpc' = "done"
          /\ result' = <<>>
          /\ UNCHANGED <<taskPc, fileDiags, refDiags, ownPc, ownDiags>>
     ELSE /\ cpc' = "passes"
          /\ taskPc' = FileTasksAtStart(cOptions, links)
          /\ fileDiags' = <<>>
          /\ refDiags' = validateReferenceLinks(cOptions, links)
          /\ ownPc' = OwnPassAtStart(cOptions)
          /\ ownDiags' = <<>>
          /\ UNCHANGED result
  /\ UNCHANGED <<links, cOptions, mdDocs, diskFiles, call, cancelled, first>>
  /\ UNCHANGED <<mvars, wvars>>

\* Where a task goes when tryFindMdDocumentForLink returns (lines 298-313).
AfterFind(entry, docs) ==
  LET hrefDoc == tryFindMdDocumentForLink(entry.path, docs)
  IN IF hrefDoc # NoDoc /\ hrefDoc = DocUri THEN "done"
     ELSE IF hrefDoc = NoDoc THEN "exists"
     ELSE IF \E i \in DOMAIN entry.links : entry.links[i].fragment # ""
          THEN "toc"
     ELSE "done"

TaskFindReturn(t) ==
  /\ cpc = "passes"
  /\ t \in DOMAIN taskPc
  /\ taskPc[t] = "find"
  /\ LET next == AfterFind(FileLinkMap(links)[t], mdDocs)
     IN taskPc' = IF next = "done" THEN TaskSettled(taskPc, t, cancelled)
                  ELSE [taskPc EXCEPT ![t] = next]
  /\ UNCHANGED <<links, cOptions, mdDocs, diskFiles, call, cpc, cancelled,
                 fileDiags, refDiags, ownPc, ownDiags, result, first>>
  /\ UNCHANGED <<mvars, wvars>>

\* pathExists returns (lines 304-308).
TaskExistsReturn(t) ==
  /\ cpc = "passes"
  /\ t \in DOMAIN taskPc
  /\ taskPc[t] = "exists"
  /\ LET entry == FileLinkMap(links)[t]
         severity == toSeverity(cOptions.validateFilePaths)
     IN fileDiags' = IF entry.path \notin diskFiles
                     THEN fileDiags \o MissingFileDiagnostics(entry, severity)
                     ELSE fileDiags
  /\ taskPc' = TaskSettled(taskPc, t, cancelled)
  /\ UNCHANGED <<links, cOptions, mdDocs, diskFiles, call, cpc, cancelled,
                 refDiags, ownPc, ownDiags, result, first>>
  /\ UNCHANGED <<mvars, wvars>>

\* TableOfContents.create(engine, hrefDoc) returns (lines 313-319).
TaskTocReturn(t) ==
  /\ cpc = "passes"
  /\ t \in DOMAIN taskPc
  /\ taskPc[t] = "toc"
  /\ LET entry == FileLinkMap(links)[t]
         severity == toSeverity(cOptions.validateFilePaths)
         hrefDoc == tryFindMdDocumentForLink(entry.path, mdDocs)
     IN fileDiags' = fileDiags \o MissingHeaderDiagnostics(entry, hrefDoc, severity)
  /\ taskPc' = TaskSettled(taskPc, t, cancelled)
  /\ UNCHANGED <<links, cOptions, mdDocs, diskFiles, call, cpc, cancelled,
                 refDiags, ownPc, ownDiags, result, first>>
  /\ UNCHANGED <<mvars, wvars>>

\* TableOfContents.create(engine, doc) returns in validateOwnHeaderLinks
\* (lines 238-257).
OwnTocReturn ==
  /\ cpc = "passes"
  /\ ownPc = "toc"
  /\ ownPc' = "done"
  /\ ownDiags' = IF cancelled THEN <<>>
                 ELSE OwnHeaderDiagnostics(links,
                                           toSeverity(cOptions.validateOwnHeaders))
  /\ UNCHANGED <<links, cOptions, mdDocs, diskFiles, call, cpc, cancelled,
                 taskPc, fileDiags, refDiags, result, first>>
  /\ UNCHANGED <<mvars, wvars>>

\* The caller cancels the token of the first call while it runs.
Cancel ==
  /\ call = 1
  /\ cpc # "done"
  /\ ~cancelled
  /\ cancelled' = TRUE
  /\ UNCHANGED <<links, cOptions, mdDocs, diskFiles, call, cpc, taskPc,
                 fileDiags, refDiags, ownPc, ownDiags, result, first>>
  /\ UNCHANGED <<mvars, wvars>>

\* The three results concatenated with the own-header pass first.
FlatOwnHeadersFirst(file, ref, own) == own \o ref \o file

\* Promise.all settles, .flat() (lines 225-229).
Flat(file, ref, own) == file \o ref \o own

PassesSettle ==
  /\ cpc = "passes"
  /\ \A t \in DOMAIN taskPc : taskPc[t] = "done"
  /\ ownPc = "done"
  /\ cpc' = "done"
  /\ result' = Flat(fileDiags, refDiags, ownDiags)
  /\ UNCHANGED <<links, cOptions, mdDocs, diskFiles, call, cancelled, taskPc,
                 fileDiags, refDiags, ownPc, ownDiags, first>>
  /\ UNCHANGED <<mvars, wvars>>

\* After a call that ran uncancelled the caller calls getDiagnostics again,
\* on the unchanged document, with the same options and a fresh token.
SecondCall ==
  /\ cpc = "done"
  /\ call = 1
  /\ ~cancelled
  /\ first' = result
  /\ call' = 2
  /\ cpc' = "links"
  /\ taskPc' = <<>>
  /\ fileDiags' = <<>>
  /\ refDiags' = <<>>
  /\ ownPc' = "idle"
  /\ ownDiags' = <<>>
  /\ result' = <<>>
  /\ UNCHANGED <<links, cOptions, mdDocs, diskFiles, cancelled>>
  /\ UNCHANGED <<mvars, wvars>>

\* After a call that ran uncancelled in a workspace where the targets were
\* missing, the missing files are created and the caller calls
\* getDiagnostics again on the unchanged document: the next computation.
RecomputeAfterCreate ==
  /\ cpc = "done"
  /\ call = 1
  /\ ~cancelled
  /\ \E w \in Worlds : /\ w.docs = mdDocs
                       /\ diskFiles \subseteq w.disk
                       /\ diskFiles # w.disk
                       /\ diskFiles' = w.disk
  /\ first' = result
  /\ call' = 3
  /\ cpc' = "links"
  /\ taskPc' = <<>>
  /\ fileDiags' = <<>>
  /\ refDiags' = <<>>
  /\ ownPc' = "idle"
  /\ ownDiags' = <<>>
  /\ result' = <<>>
  /\ UNCHANGED <<links, cOptions, mdDocs, cancelled>>
  /\ UNCHANGED <<mvars, wvars>>

CNext ==
  \/ LinksReturn
  \/ \E t \in 1..(NumLinks + NumTargets) : TaskFindReturn(t)
  \/ \E t \in 1..(NumLinks + NumTargets) : TaskExistsReturn(t)
  \/ \E t \in 1..(NumLinks + NumTargets) : TaskTocReturn(t)
  \/ OwnTocReturn
  \/ Cancel
  \/ PassesSettle
  \/ SecondCall
  \/ RecomputeAfterCreate

SpecComputer == CInit /\ [][CNext]_vars

----------------------------------------------------------------------------
(* SpecFaulty: getDiagnostics with oracles that may raise a fault          *)

\* An awaited oracle call of a file-path task (tryFindMdDocumentForLink,
\* pathExists or TableOfContents.create) rejects. Nothing catches it: the
\* task's promise rejects, so does the Promise.all of line 291 and with it
\* validateFileLinks, so does the Promise.all of line 225 and with it
\* getDiagnostics, which returns no list.
OracleFault(t) ==
  /\ cpc = "passes"
  /\ t \in DOMAIN taskPc
  /\ taskPc[t] \in {"find", "exists", "toc"}
  /\ cpc' = "rejected"
  /\ result' = <<>>
  /\ UNCHANGED <<links, cOptions, mdDocs, diskFiles, call, cancelled, taskPc,
                 fileDiags, refDiags, ownPc, ownDiags, first>>
  /\ UNCHANGED <<mvars, wvars>>

\* TableOfContents.create rejects in validateOwnHeaderLinks (line 238):
\* the pass rejects and with it the Promise.all of line 225.
OwnTocFault ==
  /\ cpc = "passes"
  /\ ownPc = "toc"
  /\ cpc' = "rejected"
  /\ result' = <<>>
  /\ UNCHANGED <<links, cOptions, mdDocs, diskFiles, call, cancelled, taskPc,
                 fileDiags, refDiags, ownPc, ownDiags, first>>
  /\ UNCHANGED <<mvars, wvars>>

\* One call, with validation enabled, on a document of a few links.
FInit ==
  /\ CInit
  /\ links \in SmallDocuments
  /\ cOptions.enabled

FNext ==
  \/ LinksReturn
  \/ \E t \in 1..NumLinks : TaskFindReturn(t)
  \/ \E t \in 1..NumLinks : TaskExistsReturn(t)
  \/ \E t \in 1..NumLinks : TaskTocReturn(t)
  \/ OwnTocReturn
  \/ PassesSettle
  \/ \E t \in 1..NumLinks : OracleFault(t)
  \/ OwnTocFault

SpecFaulty == FInit /\ [][FNext]_vars

----------------------------------------------------------------------------
(* Properties of DiagnosticComputer.getDiagnostics                         *)

OwnMessages == {"No header found"}
RefMessages == {"No link reference found"}
FileMessages == {"File does not exist at path", "Header does not exist in file"}

Entries(seq) == {seq[k] : k \in DOMAIN seq}
OfKind(seq, msgs) == {d \in Entries(seq) : d.message \in msgs}
Configured(level) == IF level = "error" THEN "Error" ELSE "Warning"
Reporting(level) == level \in {"warning", "error"}

\* A link that own-header validation must report.
BrokenOwnHeader(link) ==
  /\ link.hrefKind = "internal"
  /\ link.path = DocUri
  /\ link.fragment # ""
  /\ ~TocLookup(DocUri, link.fragment)

\* A reference link with no definition of its name in the document.
UndefinedReference(ls, link) ==
  /\ link.hrefKind = "reference"
  /\ ~\E k \in DOMAIN ls : ls[k].kind = "definition" /\ ls[k].defines = link.ref

ExpectedOwn(ls, level) ==
  IF ~Reporting(level) THEN {}
  ELSE {Diagnostic(l.range, "No header found", l.fragment, Configured(level)) :
          l \in {x \in Entries(ls) : BrokenOwnHeader(x)}}

ExpectedRef(ls, level) ==
  IF ~Reporting(level) THEN {}
  ELSE {Diagnostic(l.range, "No link reference found", l.ref, Configured(level)) :
          l \in {x \in Entries(ls) : UndefinedReference(ls, x)}}

ExpectedFile(ls, level, docs, disk) ==
  IF ~Reporting(level) THEN {}
  ELSE {Diagnostic(l.range, "File does not exist at path", l.path,
                   Configured(level)) :
          l \in {x \in Entries(ls) : /\ x.hrefKind = "internal"
                                     /\ x.path \notin docs
                                     /\ x.path \notin disk}}
       \cup
       {Diagnostic(l.range, "Header does not exist in file", l.fragment,
                   Configured(level)) :
          l \in {x \in Entries(ls) : /\ x.hrefKind = "internal"
                                     /\ x.path \in docs
                                     /\ x.path # DocUri
                                     /\ x.fragment # ""
                                     /\ ~TocLookup(x.path, x.fragment)}}

\* The call passed the cancellation check of line 221 and ran the passes.
PassesStarted == ownPc # "idle"

\* How many diagnostics of seq are anchored at a range.
CountAt(seq, range) == Cardinality({k \in DOMAIN seq : seq[k].range = range})

\* C6: within one getDiagnostics computation at most 10 file-path
\* resolution tasks are in flight at once, for any number of distinct link
\* targets, including more than 10.
C6_AtMostTenInFlight == Cardinality(Running(taskPc)) <= 10

\* Ten tasks run while an eleventh target waits in the limiter's queue.
C6_Witness ==
  /\ cpc = "passes"
  /\ Cardinality(Running(taskPc)) = 10
  /\ \E t \in DOMAIN taskPc : taskPc[t] = "queued"

\* C7: a category whose level is ignore contributes no diagnostic of its
\* kind to the returned list, also when the document holds violations of
\* that category, and in a call that was not cancelled the diagnostics of
\* the other two categories are then exactly those their own levels ask for.
C7_IgnoredCategorySilent ==
  cpc = "done" =>
    /\ cOptions.validateOwnHeaders = "ignore" =>
         /\ OfKind(result, OwnMessages) = {}
         /\ ~cancelled =>
              /\ OfKind(result, RefMessages)
                   = ExpectedRef(links, cOptions.validateReferences)
              /\ OfKind(result, FileMessages)
                   = ExpectedFile(links, cOptions.validateFilePaths, mdDocs, diskFiles)
    /\ cOptions.validateReferences = "ignore" =>
         /\ OfKind(result, RefMessages) = {}
         /\ ~cancelled =>
              /\ OfKind(result, OwnMessages)
                   = ExpectedOwn(links, cOptions.validateOwnHeaders)
              /\ OfKind(result, FileMessages)
                   = ExpectedFile(links, cOptions.validateFilePaths, mdDocs, diskFiles)
    /\ cOptions.validateFilePaths = "ignore" =>
         /\ OfKind(result, FileMessages) = {}
         /\ ~cancelled =>
              /\ OfKind(result, OwnMessages)
                   = ExpectedOwn(links, cOptions.validateOwnHeaders)
              /\ OfKind(result, RefMessages)
                   = ExpectedRef(links, cOptions.validateReferences)

\* A call returns with own-header validation ignored on a document that has
\* a broken own-header link, and still reports another category.
C7_Witness ==
  /\ cpc = "done"
  /\ ~cancelled
  /\ cOptions.validateOwnHeaders = "ignore"
  /\ \E i \in DOMAIN links : BrokenOwnHeader(links[i])
  /\ OfKind(result, RefMessages) # {}

\* C8: two getDiagnostics calls on the same unchanged document, with the
\* same options and oracle answers, return the same list in the same order,
\* whatever the order in which the file-path tasks of each call complete.
C8_SecondCallSameList == (call = 2 /\ cpc = "done") => result = first

\* C9: with validateOwnHeaders = warning or error, own-header validation of
\* a call that is not cancelled returns exactly one diagnostic for each
\* link to the document's own path with a non-empty fragment its table of
\* contents lacks, with the configured severity and at the link's href
\* range, and none for any other link.
C9_OwnHeaderExact ==
  (/\ cpc \in {"passes", "done"}
   /\ ownPc = "done"
   /\ ~cancelled
   /\ Reporting(cOptions.validateOwnHeaders)) =>
    /\ \A i \in DOMAIN links :
         CountAt(ownDiags, links[i].range)
           = IF BrokenOwnHeader(links[i]) THEN 1 ELSE 0
    /\ \A k \in DOMAIN ownDiags :
         /\ ownDiags[k].severity = Configured(cOptions.validateOwnHeaders)
         /\ ownDiags[k].message \in OwnMessages
         /\ \E i \in DOMAIN links : /\ links[i].range = ownDiags[k].range
                                    /\ links[i].fragment = ownDiags[k].arg
    /\ cpc = "done" =>
         OfKind(result, OwnMessages) = Entries(ownDiags)

\* Own-header validation reported one link and passed another link to the
\* document's own path.
C9_Witness ==
  /\ cpc = "done"
  /\ ~cancelled
  /\ cOptions.validateOwnHeaders = "error"
  /\ Len(ownDiags) = 1
  /\ \E i \in DOMAIN links :
       /\ links[i].path = DocUri
       /\ ~BrokenOwnHeader(links[i])

RemoveAt(seq, k) ==
  [j \in 1..(Len(seq) - 1) |-> IF j < k THEN seq[j] ELSE seq[j + 1]]

\* C10: with validateReferences = warning or error, reference validation
\* (once the call is past its cancellation check and runs the passes)
\* returns exactly one diagnostic, with the configured severity, for each
\* reference link whose name no definition of the document defines, and
\* none for any other link; and what it returns for a document with a
\* definition is what it returns for the document without that definition
\* less the diagnostics naming the defined reference.
C10_ReferenceExact ==
  (PassesStarted /\ Reporting(cOptions.validateReferences)) =>
    /\ \A i \in DOMAIN links :
         CountAt(refDiags, links[i].range)
           = IF UndefinedReference(links, links[i]) THEN 1 ELSE 0
    /\ \A k \in DOMAIN refDiags :
         /\ refDiags[k].severity = Configured(cOptions.validateReferences)
         /\ refDiags[k].message \in RefMessages
         /\ \E i \in DOMAIN links : /\ links[i].range = refDiags[k].range
                                    /\ links[i].ref = refDiags[k].arg
    /\ \A k \in DOMAIN links :
         links[k].kind = "definition" =>
           LET before == validateReferenceLinks(cOptions, RemoveAt(links, k))
           IN /\ Entries(refDiags)
                   = {d \in Entries(before) : d.arg # links[k].defines}
              /\ Len(refDiags)
                   = Cardinality({j \in DOMAIN before :
                                    before[j].arg # links[k].defines})
    /\ cpc = "done" /\ ~cancelled =>
         OfKind(result, RefMessages) = Entries(refDiags)

\* Reference validation, at level warning, reports nothing for a document
\* holding a reference link and the definition of its name, and reports the
\* link for the document without the definition.
C10_Witness ==
  /\ cpc = "passes"
  /\ cOptions.validateReferences = "warning"
  /\ refDiags = <<>>
  /\ \E i, k \in DOMAIN links :
       /\ links[i].hrefKind = "reference"
       /\ links[k].kind = "definition"
       /\ links[k].defines = links[i].ref
       /\ Len(validateReferenceLinks(cOptions, RemoveAt(links, k))) = 1

\* The file-path pass of the call has run all its tasks, uncancelled.
FilePassComplete ==
  /\ PassesStarted
  /\ ~cancelled
  /\ \A t \in DOMAIN taskPc : taskPc[t] = "done"

\* A link whose target is neither a markdown document nor a file on disk.
MissingTarget(link) ==
  /\ link.hrefKind = "internal"
  /\ link.path \notin mdDocs
  /\ link.path \notin diskFiles

MissingFileAt(seq, range) ==
  Cardinality({k \in DOMAIN seq : /\ seq[k].range = range
                                  /\ seq[k].message = "File does not exist at path"})

\* C11: with validateFilePaths = warning or error, file-path validation
\* returns exactly one 'File does not exist' diagnostic, with the configured
\* severity, for each link whose target is neither found as a markdown
\* document nor exists on disk (as many as there are links to the target)
\* and none for any other link; the computation that follows the creation
\* of the target returns none for it.
C11_MissingFileExact ==
  (FilePassComplete /\ Reporting(cOptions.validateFilePaths)) =>
    /\ \A i \in DOMAIN links :
         MissingFileAt(fileDiags, links[i].range)
           = IF MissingTarget(links[i]) THEN 1 ELSE 0
    /\ \A k \in DOMAIN fileDiags :
         fileDiags[k].message = "File does not exist at path" =>
           /\ fileDiags[k].severity = Configured(cOptions.validateFilePaths)
           /\ \E i \in DOMAIN links : /\ links[i].range = fileDiags[k].range
                                      /\ links[i].path = fileDiags[k].arg
    /\ cpc = "done" =>
         /\ OfKind(result, FileMessages) = Entries(fileDiags)
         /\ call = 3 =>
              \A k \in DOMAIN result :
                result[k].message = "File does not exist at path" =>
                  result[k].arg \notin diskFiles

\* The first call reported both links to a missing file; the file was then
\* created and the next computation reports neither.
C11_Witness ==
  /\ call = 3
  /\ cpc = "done"
  /\ Cardinality({k \in DOMAIN first :
                    /\ first[k].message = "File does not exist at path"
                    /\ first[k].arg = 1}) = 2
  /\ 1 \in diskFiles
  /\ OfKind(result, {"File does not exist at path"}) = {}

\* A link into another markdown document with a fragment that document's
\* table of contents does not hold.
BrokenOtherHeader(link) ==
  /\ link.hrefKind = "internal"
  /\ link.path \in mdDocs
  /\ link.path # DocUri
  /\ link.fragment # ""
  /\ ~TocLookup(link.path, link.fragment)

MissingHeaderAt(seq, range) ==
  Cardinality({k \in DOMAIN seq : /\ seq[k].range = range
                                  /\ seq[k].message = "Header does not exist in file"})

\* C12: with validateFilePaths = warning or error, for a link target that
\* resolves to another markdown document file-path validation returns one
\* 'Header does not exist in file' diagnostic for each link to it whose
\* non-empty fragment is absent from the target's table of contents, and
\* none for links to it with an empty fragment or a fragment that is found.
C12_MissingHeaderExact ==
  (FilePassComplete /\ Reporting(cOptions.validateFilePaths)) =>
    /\ \A i \in DOMAIN links :
         MissingHeaderAt(fileDiags, links[i].range)
           = IF BrokenOtherHeader(links[i]) THEN 1 ELSE 0
    /\ \A k \in DOMAIN fileDiags :
         fileDiags[k].message = "Header does not exist in file" =>
           /\ fileDiags[k].severity = Configured(cOptions.validateFilePaths)
           /\ \E i \in DOMAIN links : /\ links[i].range = fileDiags[k].range
                                      /\ links[i].fragment = fileDiags[k].arg
    /\ cpc = "done" =>
         \A i \in DOMAIN links :
           MissingHeaderAt(result, links[i].range)
             = MissingHeaderAt(fileDiags, links[i].range)

\* Three links into the same other document: the one with a fragment the
\* document lacks is reported, those with a found or an empty fragment are
\* not.
C12_Witness ==
  /\ cpc = "done"
  /\ ~cancelled
  /\ cOptions.validateFilePaths = "warning"
  /\ \E i, j, k \in DOMAIN links :
       /\ links[i].path = 2 /\ links[i].fragment = "nohdr"
       /\ links[j].path = 2 /\ links[j].fragment = "intro"
       /\ links[k].path = 2 /\ links[k].fragment = ""
  /\ Len(result) = 1
  /\ result[1].message = "Header does not exist in file"
  /\ result[1].arg = "nohdr"

\* C18: DiagnosticComputer.getDiagnostics called with options.enabled =
\* false starts no validation pass and returns an empty list, for every
\* document and every setting of the three levels.
C18_DisabledComputerReturnsEmpty ==
  ~cOptions.enabled =>
    /\ ~PassesStarted
    /\ cpc = "done" => result = <<>>

\* C19: if the token is cancelled by the time link extraction returns,
\* getDiagnostics returns an empty list and starts none of the three
\* passes: no file-path task is created, reference validation does not run
\* and the own-header pass does not reach TableOfContents.create.
C19_CancelledAtLinksStartsNothing ==
  [][(cpc = "links" /\ cancelled /\ cpc' # "links") =>
       /\ cpc' = "done"
       /\ result' = <<>>
       /\ taskPc' = <<>>
       /\ fileDiags' = <<>>
       /\ refDiags' = <<>>
       /\ ownPc' = "idle"
       /\ ownDiags' = <<>>]_vars

\* A call on a document with an undefined reference, at level error, was
\* cancelled before link extraction returned, and has returned [].
C19_Witness ==
  /\ call = 1
  /\ cancelled
  /\ cpc = "done"
  /\ ~PassesStarted
  /\ cOptions.validateReferences = "error"
  /\ ExpectedRef(links, cOptions.validateReferences) # {}
  /\ result = <<>>

\* The place of a diagnostic's pass in the fixed order of the result.
PassRank(d) ==
  IF d.message \in FileMessages THEN 1
  ELSE IF d.message \in RefMessages THEN 2
  ELSE 3

\* C20: in the list getDiagnostics returns all file-path diagnostics come
\* first, then all reference diagnostics, then all own-header diagnostics,
\* whatever the order in which the passes and their tasks finished.
C20_FixedPassOrder ==
  (cpc = "done" /\ PassesStarted) =>
    /\ \A i, j \in DOMAIN result :
         i < j => PassRank(result[i]) <= PassRank(result[j])
    /\ Len(result) = Len(fileDiags) + Len(refDiags) + Len(ownDiags)

\* A call returned one diagnostic of each pass: the file-path one, whose
\* task awaits two oracles, then the reference one, then the own-header one.
C20_Witness ==
  /\ cpc = "done"
  /\ Len(result) = 3
  /\ result[1].message \in FileMessages
  /\ result[2].message \in RefMessages
  /\ result[3].message \in OwnMessages

\* C16: if one validation pass of a getDiagnostics computation fails (an
\* oracle raises a fault while the file-path pass resolves a target, or
\* while the own-header pass builds the table of contents), the diagnostics
\* of the other passes for the document are still returned.
C16_OtherPassesStillReturned ==
  cpc = "rejected" =>
    /\ OfKind(result, RefMessages)
         = ExpectedRef(links, cOptions.validateReferences)
    /\ (\A t \in DOMAIN taskPc : taskPc[t] = "done") =>
         OfKind(result, FileMessages)
           = ExpectedFile(links, cOptions.validateFilePaths, mdDocs, diskFiles)
    /\ ownPc = "done" =>
         OfKind(result, OwnMessages)
           = ExpectedOwn(links, cOptions.validateOwnHeaders)

----------------------------------------------------------------------------
(* SpecManager: the DiagnosticManager                                      *)

\* validateFileLinks, its tasks settling in the order they were queued.
FileDiagnosticsInOrder(ls, opts, docs, disk) ==
  LET severity == toSeverity(opts.validateFilePaths)
      es == FileLinkMap(ls)
      f[i \in 0..Len(es)] ==
        IF i = 0 THEN <<>>
        ELSE f[i - 1] \o FileTaskDiagnostics(es[i], severity, docs, disk)
  IN IF severity = "undefined" THEN <<>> ELSE f[Len(es)]

\* What computer.getDiagnostics(doc, config, noopToken) returns for a
\* document with the links of c: noopToken is never cancelled, the document
\* itself and path 2 are markdown documents and no other path exists.
ComputerReturns(c, opts) ==
  LET ls == DocLinks(c)
      severity == toSeverity(opts.validateOwnHeaders)
  IN Flat(FileDiagnosticsInOrder(ls, opts, {DocUri, 2}, {}),
          validateReferenceLinks(opts, ls),
          IF severity = "undefined" THEN <<>>
          ELSE OwnHeaderDiagnostics(ls, severity))

\* noopToken (util/cancellation): a token nobody can cancel.
noopToken == [isCancellationRequested |-> FALSE]

\* A token whose cancellation was requested.
CancelledToken == [isCancellationRequested |-> TRUE]

\* The token update() passes to getDiagnostics (line 156).
UpdateToken == noopToken

\* What computer.getDiagnostics(doc, config, token) returns for a token that
\* does not change while the call runs: [] at line 222 if it is cancelled.
ComputerReturnsWith(c, opts, token) ==
  IF token.isCancellationRequested THEN <<>> ELSE ComputerReturns(c, opts)

\* DiagnosticManager.getDiagnostics without the test of config.enabled.
ManagerGetDiagnosticsAlwaysComputes(config) ==
  [settled |-> FALSE, computer |-> TRUE, value |-> <<>>]

\* DiagnosticManager.getDiagnostics up to its return: with validation
\* disabled it returns [] and the computer is not called; otherwise it
\* returns the computer's promise.
ManagerGetDiagnostics(config) ==
  IF ~config.enabled
  THEN [settled |-> TRUE, computer |-> FALSE, value |-> <<>>]
  ELSE [settled |-> FALSE, computer |-> TRUE, value |-> <<>>]

\* update(doc) for each document of ds in turn, the configuration being
\* config: a call that returns [] publishes it before any other event is
\* handled, a call into the computer stays in flight.
RECURSIVE UpdateAll(_, _, _)
UpdateAll(ds, config, st) ==
  IF ds = <<>> THEN st
  ELSE LET doc == Head(ds)
           r == ManagerGetDiagnostics(config)
           returns == IF r.settled THEN r.value
                      ELSE ComputerReturnsWith(content[doc], config, UpdateToken)
       IN UpdateAll(Tail(ds), config,
            [collection |-> IF r.settled
                            THEN [st.collection EXCEPT ![doc] = Entry(r.value)]
                            ELSE st.collection,
             inflight |-> IF r.settled THEN st.inflight
                          ELSE [st.inflight EXCEPT
                                  ![[doc |-> doc, content |-> content[doc],
                                     config |-> config]] = @ + 1],
             latest |-> [st.latest EXCEPT ![doc] = Entry(returns)],
             calls |-> st.calls \cup
                       {[doc |-> doc, config |-> config, settled |-> r.settled,
                         computer |-> r.computer, value |-> r.value]}])

Opened == {textDocuments[i] : i \in DOMAIN textDocuments}

NoFire == [u \in Uris |-> [pending |-> FALSE, events |-> "none", updates |-> 0]]

Min(a, b) == IF a < b THEN a ELSE b
Max(a, b) == IF a > b THEN a ELSE b

\* onDocUpdated (lines 98-103): a markdown document is added to the pending
\* set and the delayer is triggered, which restarts its one timeout.
onDocUpdated(uri) ==
  IF isMarkdownFile(uri)
  THEN /\ pendingDiagnostics' = pendingDiagnostics \cup {uri}
       /\ timer' = DelayMs
       /\ burst' = [burst EXCEPT ![uri] = IF @ = "none" THEN "one" ELSE "several"]
  ELSE UNCHANGED <<pendingDiagnostics, timer, burst>>

\* onDidOpenTextDocument: the document opens with some content, shown in a
\* text tab or not.
OpenDoc(uri, shown, c) ==
  /\ uri \notin Opened
  /\ isMarkdownFile(uri)
  /\ c \in Contents(uri)
  /\ shown \in InTextTab(uri)
  /\ textDocuments' = Append(textDocuments, uri)
  /\ tabs' = IF shown THEN tabs \cup {uri} ELSE tabs
  /\ content' = [content EXCEPT ![uri] = c]
  /\ onDocUpdated(uri)
  /\ fireLog' = NoFire
  /\ calls' = {}
  /\ UNCHANGED failed
  /\ UNCHANGED <<options, collection, inflight, latest>>
  /\ UNCHANGED <<cvars, wvars>>

\* onDidChangeTextDocument
ChangeDoc(uri, c) ==
  /\ uri \in Opened
  /\ ~ReadOnly(uri)
  /\ c \in Contents(uri)
  /\ content' = [content EXCEPT ![uri] = c]
  /\ onDocUpdated(uri)
  /\ fireLog' = NoFire
  /\ calls' = {}
  /\ UNCHANGED failed
  /\ UNCHANGED <<textDocuments, tabs, options, collection, inflight, latest>>
  /\ UNCHANGED <<cvars, wvars>>

\* onDidCloseTextDocument without line 114: the document stays pending.
CloseDocKeepsPending(uri) ==
  /\ uri \in Opened
  /\ isMarkdownFile(uri)
  /\ textDocuments' = SelectSeq(textDocuments, LAMBDA u : u # uri)
  /\ tabs' = tabs \ {uri}
  /\ content' = [content EXCEPT ![uri] = {}]
  /\ collection' = [collection EXCEPT ![uri] = NoEntry]
  /\ latest' = [latest EXCEPT ![uri] = NoEntry]
  /\ burst' = [burst EXCEPT ![uri] = "none"]
  /\ fireLog' = NoFire
  /\ calls' = {}
  /\ UNCHANGED failed
  /\ UNCHANGED <<options, timer, inflight, pendingDiagnostics>>
  /\ UNCHANGED <<cvars, wvars>>

\* onDidCloseTextDocument (lines 113-116)
CloseDoc(uri) ==
  /\ uri \in Opened
  /\ isMarkdownFile(uri)
  /\ textDocuments' = SelectSeq(textDocuments, LAMBDA u : u # uri)
  /\ tabs' = tabs \ {uri}
  /\ content' = [content EXCEPT ![uri] = {}]
  /\ pendingDiagnostics' = pendingDiagnostics \ {uri}
  /\ collection' = [collection EXCEPT ![uri] = NoEntry]
  /\ latest' = [latest EXCEPT ![uri] = NoEntry]
  /\ burst' = [burst EXCEPT ![uri] = "none"]
  /\ fireLog' = NoFire
  /\ calls' = {}
  /\ UNCHANGED failed
  /\ UNCHANGED <<options, timer, inflight>>
  /\ UNCHANGED <<cvars, wvars>>

\* textDocuments.find(doc => doc.uri.fsPath === resource.fsPath), line 126:
\* the first open document with the path of the resource, if any.
FindDoc(resource) ==
  LET hits == {i \in DOMAIN textDocuments :
                 fsPath(textDocuments[i]) = fsPath(resource)}
  IN IF hits = {} THEN <<>>
     ELSE <<textDocuments[CHOOSE i \in hits : \A j \in hits : i <= j]>>

\* The documents recomputePendingDiagnostics calls update for.
RECURSIVE PendingDocs(_)
PendingDocs(pending) ==
  IF pending = {} THEN <<>>
  ELSE LET resource == CHOOSE r \in pending : TRUE
       IN FindDoc(resource) \o PendingDocs(pending \ {resource})

Occurrences(seq, x) == Cardinality({i \in DOMAIN seq : seq[i] = x})

RECURSIVE Total(_, _)
Total(f, S) ==
  IF S = {} THEN 0
  ELSE LET x == CHOOSE y \in S : TRUE IN f[x] + Total(f, S \ {x})

\* How many update() calls are in flight.
InFlight == Total(inflight, Computations)

\* How many are once update() was called for the documents of ds.
InFlightAfter(ds, config) ==
  InFlight + IF ManagerGetDiagnostics(config).settled THEN 0 ELSE Len(ds)

\* The delayer's timeout fires: recomputePendingDiagnostics (lines 121-131).
TimerFire ==
  /\ timer = 0
  /\ LET ds == PendingDocs(pendingDiagnostics)
         st == UpdateAll(ds, options,
                         [collection |-> collection, inflight |-> inflight,
                          latest |-> latest, calls |-> {}])
     IN /\ InFlightAfter(ds, options) <= MaxInflight
        /\ collection' = st.collection
        /\ inflight' = st.inflight
        /\ latest' = st.latest
        /\ calls' = st.calls
        /\ fireLog' = [u \in Uris |->
                         [pending |-> u \in pendingDiagnostics,
                          events |-> burst[u],
                          updates |-> Occurrences(ds, u)]]
  /\ timer' = -1
  /\ failed' = {}
  /\ pendingDiagnostics' = {}
  /\ burst' = [u \in Uris |-> "none"]
  /\ UNCHANGED <<textDocuments, tabs, content, options>>
  /\ UNCHANGED <<cvars, wvars>>

\* Time passes while the timeout is pending.
Tick ==
  /\ timer > 0
  /\ timer' = Max(0, timer - TickMs)
  /\ fireLog' = NoFire
  /\ calls' = {}
  /\ UNCHANGED failed
  /\ UNCHANGED <<textDocuments, tabs, content, options, pendingDiagnostics,
                 collection, inflight, latest, burst>>
  /\ UNCHANGED <<cvars, wvars>>

\* The documents rebuild calls update for (lines 136-140).
RebuildDocs ==
  SelectSeq(textDocuments, LAMBDA u : u \in tabs /\ isMarkdownFile(u))

\* Whether a change from config old to config new fires onDidChange
\* (lines 59-63): only 'markdown.experimental.validate.enabled' is asked for.
affectsConfiguration(old, new) == old.enabled # new.enabled

\* onDidChangeConfiguration: the options change; if the change fires
\* onDidChange, rebuild (lines 133-141) clears the collection and calls
\* update for the markdown documents shown in tabs.
ConfigChange(new) ==
  /\ new # options
  /\ options' = new
  /\ IF affectsConfiguration(options, new)
     THEN LET st == UpdateAll(RebuildDocs, new,
                              [collection |-> [u \in Uris |-> NoEntry],
                               inflight |-> inflight,
                               latest |-> latest, calls |-> {}])
          IN /\ InFlightAfter(RebuildDocs, new) <= MaxInflight
             /\ collection' = st.collection
             /\ inflight' = st.inflight
             /\ latest' = st.latest
             /\ calls' = st.calls
             /\ failed' = {}
     ELSE /\ calls' = {}
          /\ UNCHANGED <<collection, inflight, latest, failed>>
  /\ fireLog' = NoFire
  /\ UNCHANGED <<textDocuments, tabs, content, pendingDiagnostics, timer, burst>>
  /\ UNCHANGED <<cvars, wvars>>

\* computer.getDiagnostics settles for an update() in flight, which goes on
\* to collection.set(doc.uri, diagnostics) (lines 156-157).
Complete(c) ==
  /\ inflight[c] > 0
  /\ collection' = [collection EXCEPT
                      ![c.doc] = Entry(ComputerReturnsWith(c.content, c.config,
                                                           UpdateToken))]
  /\ inflight' = [inflight EXCEPT ![c] = @ - 1]
  /\ fireLog' = NoFire
  /\ calls' = {}
  /\ UNCHANGED failed
  /\ UNCHANGED <<textDocuments, tabs, content, options, pendingDiagnostics,
                 timer, latest, burst>>
  /\ UNCHANGED <<cvars, wvars>>

\* The computer of a run of SpecManager: no call of its own.
CIdle ==
  /\ links = <<>>
  /\ cOptions = WideOptions
  /\ mdDocs = {}
  /\ diskFiles = {}
  /\ call = 1
  /\ cpc = "done"
  /\ cancelled = FALSE
  /\ taskPc = <<>>
  /\ fileDiags = <<>>
  /\ refDiags = <<>>
  /\ ownPc = "idle"
  /\ ownDiags = <<>>
  /\ result = <<>>
  /\ first = <<>>

\* The manager constructed with no markdown document open: its rebuild
\* (line 118) found none to update.
MInit ==
  /\ MInitState
  /\ options \in ManagerOptions
  /\ CIdle
  /\ WIdle

MNext ==
  \/ \E uri \in SharedPathUris, shown \in BOOLEAN, c \in SUBSET {1} :
       OpenDoc(uri, shown, c)
  \/ \E uri \in SharedPathUris, c \in SUBSET {1} : ChangeDoc(uri, c)
  \/ \E uri \in SharedPathUris : CloseDoc(uri)
  \/ \E new \in ManagerOptions : ConfigChange(new)
  \/ Tick
  \/ TimerFire
  \/ \E c \in Computations : Complete(c)

SpecManager == MInit /\ [][MNext]_vars

----------------------------------------------------------------------------
(* SpecBatch: two markdown files, computations that may fail               *)

\* A failure of one computation that would abort the rest of its batch.
UpdateRejectedAbortsBatch(c) ==
  /\ inflight[c] > 0
  /\ inflight' = [d \in Computations |-> 0]
  /\ failed' = failed \cup {c.doc}
  /\ fireLog' = NoFire
  /\ calls' = {}
  /\ UNCHANGED <<textDocuments, tabs, content, options, pendingDiagnostics,
                 timer, collection, latest, burst>>
  /\ UNCHANGED <<cvars, wvars>>

\* computer.getDiagnostics rejects for an update() in flight: update
\* rejects at its await (line 156) and collection.set is not reached. The
\* promise of update is dropped by recomputePendingDiagnostics (line 128)
\* and is one of a Promise.all in rebuild (lines 136-140), whose rejection
\* nobody awaits; the other update() calls were started already.
UpdateRejected(c) ==
  /\ inflight[c] > 0
  /\ inflight' = [inflight EXCEPT ![c] = @ - 1]
  /\ failed' = failed \cup {c.doc}
  /\ fireLog' = NoFire
  /\ calls' = {}
  /\ UNCHANGED <<textDocuments, tabs, content, options, pendingDiagnostics,
                 timer, collection, latest, burst>>
  /\ UNCHANGED <<cvars, wvars>>

\* The manager constructed with no markdown document open, validation on.
BInit ==
  /\ MInit
  /\ options.enabled

BNext ==
  \/ \E uri \in BatchUris, shown \in BOOLEAN, c \in SUBSET {1} :
       OpenDoc(uri, shown, c)
  \/ \E new \in ManagerOptions : ConfigChange(new)
  \/ Tick
  \/ TimerFire
  \/ \E c \in Computations : Complete(c)
  \/ \E c \in Computations : UpdateRejected(c)

SpecBatch == BInit /\ [][BNext]_vars

----------------------------------------------------------------------------
(* Properties of the DiagnosticManager                                     *)

InFlightFor(uri) == {c \in Computations : c.doc = uri /\ inflight[c] > 0}

\* C1: DiagnosticManager.getDiagnostics returns an empty list for every
\* document whose options have enabled = false, whatever the document
\* contains, and does so without calling the DiagnosticComputer: every call
\* made under such options has returned [] and no computation under such
\* options is ever in flight.
C1_DisabledReturnsEmpty ==
  /\ \A c \in calls :
       ~c.config.enabled => c.settled /\ c.value = <<>> /\ ~c.computer
  /\ \A c \in Computations : ~c.config.enabled => inflight[c] = 0

\* getDiagnostics was just called, with validation disabled, for a document
\* that holds a broken link.
C1_Witness ==
  \E c \in calls : ~c.config.enabled /\ content[c.doc] = {1} /\ c.value = <<>>

\* C2: once a document is closed the published collection holds nothing for
\* it (no entry, or an entry without diagnostics) until it is opened again,
\* also when an update of it was in flight at the close.
C2_ClosedDocumentNotPublished ==
  \A u \in Uris \ Opened : collection[u].diags = <<>>

\* C3: once the computations started for a document have all completed, its
\* published entry is the result of the newest of them: an older
\* computation never overwrites the result of a newer one.
C3_NewestResultPublished ==
  \A u \in Opened :
    (collection[u].has /\ latest[u].has /\ InFlightFor(u) = {}) =>
      collection[u].diags = latest[u].diags

\* C4: when the debounce timer fires after one or several open/change
\* events on a markdown document, exactly one computation (one call of
\* update) is started for that document.
C4_OneUpdatePerPendingDocument ==
  \A u \in Uris : fireLog[u].pending => fireLog[u].updates = 1

\* C5: while validation is off no document has a non-empty published list,
\* also when a computation started before validation was turned off
\* completes after.
C5_NothingPublishedWhileOff ==
  ~options.enabled => \A u \in Uris : collection[u].diags = <<>>

C14_EveryConfigChangeRebuilds ==
  [][options' # options =>
       /\ \A i \in DOMAIN RebuildDocs :
            \E c \in calls' : c.doc = RebuildDocs[i] /\ c.config = options'
       /\ \A u \in Uris :
            collection'[u].has => \E c \in calls' : c.doc = u /\ c.settled]_vars

\* C15: when the debounce timer fires the pending set is emptied in that
\* step, and update is called for every document that was pending (each is
\* still open: closing removes it from the set) and for no other document.
C15_FireUpdatesDrainedDocuments ==
  (\E v \in Uris : fireLog[v].pending) =>
    /\ pendingDiagnostics = {}
    /\ \A u \in Uris :
         IF fireLog[u].pending THEN u \in Opened /\ fireLog[u].updates >= 1
         ELSE fireLog[u].updates = 0

\* C17: when the computation of one document of a batch (a timer fire or a
\* rebuild) fails, no document's pending membership changes, no published
\* entry changes, and the computations of the other documents stay in
\* flight, to be published when they complete.
C17_FailureLeavesOthersAlone ==
  [][failed' # failed /\ failed' # {} =>
       /\ pendingDiagnostics' = pendingDiagnostics
       /\ collection' = collection
       /\ \A c \in Computations :
            c.doc \notin (failed' \ failed) => inflight'[c] = inflight[c]]_vars

\* The computation of file:/a.md failed, and file:/b.md, whose update was
\* started by the same batch, has since been published.
C17_Witness ==
  /\ failed = {"file:/a.md"}
  /\ InFlight = 0
  /\ ~collection["file:/a.md"].has
  /\ collection["file:/b.md"].has
  /\ collection["file:/b.md"].diags # <<>>


----------------------------------------------------------------------------
(* SpecOwnPath: getDiagnostics when the lookup may miss the document       *)

\* The state of a call that has just been made: nothing has returned yet.
CallStart ==
  /\ call = 1
  /\ cpc = "links"
  /\ cancelled = FALSE
  /\ taskPc = <<>>
  /\ fileDiags = <<>>
  /\ refDiags = <<>>
  /\ ownPc = "idle"
  /\ ownDiags = <<>>
  /\ result = <<>>
  /\ first = <<>>
  /\ MIdle
  /\ WIdle

\* The oracle answers for the document's own path: tryFindMdDocumentForLink
\* (line 298) finds the document or does not, and pathExists (line 304)
\* says its file is on disk or is not.
OwnPathWorlds ==
  {[docs |-> d, disk |-> k] :
     d \in {{2}, {DocUri, 2}}, k \in {{}, {DocUri}, {1}}}

UniformOptions ==
  {o \in DiagnosticOptions :
     /\ o.enabled
     /\ o.validateReferences = o.validateOwnHeaders
     /\ o.validateOwnHeaders = o.validateFilePaths}

OInit ==
  /\ links \in SmallDocuments
  /\ cOptions \in UniformOptions
  /\ \E w \in OwnPathWorlds : mdDocs = w.docs /\ diskFiles = w.disk
  /\ CallStart

\* One call that runs to its end.
ONext ==
  \/ LinksReturn
  \/ \E t \in 1..NumLinks : TaskFindReturn(t)
  \/ \E t \in 1..NumLinks : TaskExistsReturn(t)
  \/ \E t \in 1..NumLinks : TaskTocReturn(t)
  \/ OwnTocReturn
  \/ PassesSettle

SpecOwnPath == OInit /\ [][ONext]_vars

\* A link to the document's own path.
SelfReference(link) == link.hrefKind = "internal" /\ link.path = DocUri

\* C21: a link whose target path is the document's own path never produces
\* a file-path diagnostic ("File does not exist" or "Header does not exist
\* in file"), whatever the document lookup and pathExists answer for the
\* document's own path.
C21_SelfReferenceNoFileDiagnostic ==
  /\ \A k \in DOMAIN fileDiags :
       \A i \in DOMAIN links :
         links[i].range = fileDiags[k].range => ~SelfReference(links[i])
  /\ cpc = "done" =>
       \A d \in OfKind(result, FileMessages) :
         \A i \in DOMAIN links :
           links[i].range = d.range => ~SelfReference(links[i])

----------------------------------------------------------------------------
(* SpecLevels: getDiagnostics with a level outside DiagnosticLevel         *)

\* getOptions (lines 66-74) returns what the settings hold, unvalidated: a
\* level may be any string.
MalformedLevel == "hint"

LevelOptions ==
  {o \in [enabled : {TRUE},
          validateReferences : DiagnosticLevel \cup {MalformedLevel},
          validateOwnHeaders : DiagnosticLevel \cup {MalformedLevel},
          validateFilePaths : DiagnosticLevel \cup {MalformedLevel}] :
     MalformedLevel \in {o.validateReferences, o.validateOwnHeaders,
                         o.validateFilePaths}}

LInit ==
  /\ links \in SmallDocuments
  /\ cOptions \in LevelOptions
  /\ \E w \in Worlds : mdDocs = w.docs /\ diskFiles = w.disk
  /\ CallStart

LNext ==
  \/ LinksReturn
  \/ \E t \in 1..NumLinks : TaskFindReturn(t)
  \/ \E t \in 1..NumLinks : TaskExistsReturn(t)
  \/ \E t \in 1..NumLinks : TaskTocReturn(t)
  \/ OwnTocReturn
  \/ PassesSettle

SpecLevels == LInit /\ [][LNext]_vars

Malformed(level) == level \notin DiagnosticLevel

\* C22: a validation level that is none of ignore, warning, error is
\* treated as ignore for its category: the category's pass returns no
\* diagnostics and the call returns rather than raising an error, and the
\* other two categories are validated as their own levels ask.
C22_MalformedLevelIsIgnore ==
  /\ cpc # "rejected"
  /\ Malformed(cOptions.validateOwnHeaders) =>
       /\ ownDiags = <<>>
       /\ ownPc # "toc"
  /\ Malformed(cOptions.validateReferences) => refDiags = <<>>
  /\ Malformed(cOptions.validateFilePaths) =>
       /\ fileDiags = <<>>
       /\ taskPc = <<>>
  /\ cpc = "done" =>
       /\ OfKind(result, OwnMessages)
            = ExpectedOwn(links, cOptions.validateOwnHeaders)
       /\ OfKind(result, RefMessages)
            = ExpectedRef(links, cOptions.validateReferences)
       /\ OfKind(result, FileMessages)
            = ExpectedFile(links, cOptions.validateFilePaths, mdDocs, diskFiles)

\* A call returned with a malformed own-header level on a document with a
\* broken own-header link: that link is not reported and an undefined
\* reference is.
C22_Witness ==
  /\ cpc = "done"
  /\ Malformed(cOptions.validateOwnHeaders)
  /\ \E i \in DOMAIN links : BrokenOwnHeader(links[i])
  /\ OfKind(result, OwnMessages) = {}
  /\ OfKind(result, RefMessages) # {}


----------------------------------------------------------------------------
(* The lifecycle of a document in the DiagnosticManager                    *)

\* C23: every document's lifecycle takes only the transitions untracked to
\* pending, pending to computing, computing to published, published to
\* pending and any state to untracked on close; in particular, in every
\* step, update is called only for a document that is pending when the
\* step is taken, and the collection gets a new entry only for an open
\* document that has a computation in flight or is computed in that step.
C23_LifecycleTransitions ==
  [][/\ \A c \in calls' : c.doc \in pendingDiagnostics
     /\ \A u \in Uris :
          (collection'[u].has /\ collection'[u] # collection[u]) =>
            /\ u \in Opened
            /\ \/ InFlightFor(u) # {}
               \/ \E c \in calls' : c.doc = u /\ c.settled]_vars


\* C24: the close event for document d removes d from the pending set and
\* d's entry from the published collection in the same step, and leaves
\* every other document's pending membership and published entry
\* unchanged; and no step, a timer fire included, calls update for a
\* document that is closed, so a document closed during the debounce window
\* is not computed when the timer fires.
C24_CloseRemovesOnlyItsOwn ==
  [][/\ \A d \in Opened \ Opened' :
          /\ d \notin pendingDiagnostics'
          /\ ~collection'[d].has
          /\ \A u \in Uris \ {d} :
               /\ (u \in pendingDiagnostics') = (u \in pendingDiagnostics)
               /\ collection'[u] = collection[u]
     /\ \A c \in calls' : c.doc \in Opened']_vars

\* The timer runs and nothing is pending: every document whose event
\* started the timer was closed during the debounce window; the other
\* document is open and its published entry is still there.
C24_Witness ==
  /\ timer >= 0
  /\ pendingDiagnostics = {}
  /\ "git:/a.md" \notin Opened
  /\ "file:/a.md" \in Opened
  /\ collection["file:/a.md"].has


\* C25: a markdown document that is open but shown in no text tab is not
\* computed by a rebuild (the update calls of a step that is not a timer
\* fire are for documents shown in tabs), yet once an event has made it
\* pending it is computed at the next timer fire; a document that is not
\* markdown is never pending and never computed.
C25_UntabbedComputedOnEventOnly ==
  /\ \A u \in Uris :
       ~isMarkdownFile(u) =>
         /\ u \notin pendingDiagnostics
         /\ fireLog[u].updates = 0
         /\ \A c \in calls : c.doc # u
  /\ (\A v \in Uris : ~fireLog[v].pending) => \A c \in calls : c.doc \in tabs
  /\ \A u \in Uris :
       (fireLog[u].pending /\ u \notin tabs) => fireLog[u].updates >= 1


----------------------------------------------------------------------------
(* SpecLive: the DiagnosticManager under fair scheduling                   *)

\* Documents open, none closes and validation stays enabled: each document
\* opens once, so the events stop. The delayer's timeout is a setTimeout:
\* time passes and the callback runs unless a new event restarts it; the
\* oracles answer, so every computation in flight settles.
VNext ==
  \/ \E uri \in SharedPathUris, shown \in BOOLEAN, c \in SUBSET {1} :
       OpenDoc(uri, shown, c)
  \/ Tick
  \/ TimerFire
  \/ \E c \in Computations : Complete(c)

Fairness ==
  /\ WF_vars(Tick)
  /\ WF_vars(TimerFire)
  /\ WF_vars(\E c \in Computations : Complete(c))

SpecLive == BInit /\ [][VNext]_vars /\ Fairness

\* C26: once open events have stopped (documents staying open and
\* validation enabled), every markdown document that is pending eventually
\* leaves the pending set and the collection eventually holds an entry for
\* it computed from its content after the last event.
C26_PendingEventuallyPublished ==
  \A u \in {v \in Uris : isMarkdownFile(v)} :
    (u \in pendingDiagnostics) ~>
      (/\ u \notin pendingDiagnostics
       /\ collection[u] = Entry(ComputerReturns(content[u], options)))


----------------------------------------------------------------------------
(* SpecWorker: the webview service worker                                  *)

IndexClient == \E i \in DOMAIN clients : clients[i] = "/index.html"

\* The Response the message listener builds (lines 19-28): 200 with the
\* data for status 200, 'Not Found' with 404 for any other status.
ResponseStatus(status) == IF status = 200 THEN 200 ELSE 404

\* The fetch listener up to its first await (lines 36-49). A url that is
\* not /resource is left to the network. For /resource, an entry that is
\* already in the map answers the fetch with its promise; otherwise the
\* handler awaits clients.matchAll.
Fetch(f, url) ==
  /\ fetches[f].pc = "none"
  /\ fetches' =
       [fetches EXCEPT ![f] =
          IF url.pathname # "/resource"
          THEN [url |-> url, pc |-> "network", status |-> 0]
          ELSE LET existing == resolvedPaths[resourcePath(url)]
               IN IF existing.has
                  THEN [url |-> url,
                        pc |-> IF existing.status = 0 THEN "pending"
                               ELSE "responded",
                        status |-> existing.status]
                  ELSE [url |-> url, pc |-> "matchAll", status |-> 0]]
  /\ UNCHANGED <<resolvedPaths, posted, clients>>
  /\ UNCHANGED <<cvars, mvars>>

\* clients.matchAll returns (lines 53-71). Without an /index.html client
\* the async function returns undefined and respondWith fails. With one,
\* load-resource is posted; if the map has got the path in the meantime
\* line 63 evaluates resolvedPaths.get(resolvedPaths), which is undefined,
\* and reading .promise of it throws: respondWith is rejected. Otherwise a
\* new pending entry is set and its promise answers the fetch.
MatchAllReturn(f) ==
  /\ fetches[f].pc = "matchAll"
  /\ LET p == resourcePath(fetches[f].url)
     IN IF ~IndexClient
        THEN /\ fetches' = [fetches EXCEPT ![f].pc = "failed"]
             /\ UNCHANGED <<resolvedPaths, posted>>
        ELSE /\ posted' = [posted EXCEPT ![p] = @ + 1]
             /\ IF resolvedPaths[p].has
                THEN /\ fetches' = [fetches EXCEPT ![f].pc = "failed"]
                     /\ UNCHANGED resolvedPaths
                ELSE /\ resolvedPaths' = [resolvedPaths EXCEPT ![p] = Deferred(0)]
                     /\ fetches' = [fetches EXCEPT ![f].pc = "pending"]
  /\ UNCHANGED clients
  /\ UNCHANGED <<cvars, mvars>>

\* The message listener (lines 8-32): the page replies to a load-resource
\* with loaded-resource { path, status }. An unknown path is logged.
\* Otherwise the entry's promise is resolved, which answers every fetch
\* waiting for it; resolving a promise again changes nothing.
LoadedResource(p, status) ==
  /\ posted[p] > 0
  /\ posted' = [posted EXCEPT ![p] = @ - 1]
  /\ LET target == resolvedPaths[p]
     IN IF ~target.has \/ target.status # 0
        THEN UNCHANGED <<resolvedPaths, fetches>>
        ELSE /\ resolvedPaths' =
                  [resolvedPaths EXCEPT ![p] = Deferred(ResponseStatus(status))]
             /\ fetches' =
                  [f \in FetchIds |->
                     IF /\ fetches[f].pc = "pending"
                        /\ resourcePath(fetches[f].url) = p
                     THEN [fetches[f] EXCEPT
                             !.pc = "responded",
                             !.status = ResponseStatus(status)]
                     ELSE fetches[f]]
  /\ UNCHANGED clients
  /\ UNCHANGED <<cvars, mvars>>

\* The clients the worker controls or not: none, the webview's page, or
\* another page and the webview's page.
WInit ==
  /\ WStart
  /\ clients \in {<<>>, <<"/index.html">>, <<"/fake.html", "/index.html">>}
  /\ CIdle
  /\ MIdle

WNext ==
  \/ \E f \in FetchIds, url \in RequestUrls : Fetch(f, url)
  \/ \E f \in FetchIds : MatchAllReturn(f)
  \/ \E p \in ResourcePaths, status \in {200, 404, 500} : LoadedResource(p, status)

SpecWorker == WInit /\ [][WNext]_vars

\* C27: when an /index.html client exists, no fetch of /resource fails,
\* also not a second fetch for a path that arrives while the first is
\* still awaiting the client list; a fetch that was answered got the
\* response of the loaded-resource message for its path (status 200 or
\* 404), and a fetch not yet answered waits for the pending entry of its
\* path.
C27_EveryResourceFetchAnswered ==
  IndexClient =>
    \A f \in FetchIds :
      /\ fetches[f].pc # "failed"
      /\ fetches[f].pc = "responded" =>
           /\ fetches[f].status \in {200, 404}
           /\ resolvedPaths[resourcePath(fetches[f].url)]
                = Deferred(fetches[f].status)
      /\ fetches[f].pc = "pending" =>
           resolvedPaths[resourcePath(fetches[f].url)] = Deferred(0)

====
